---- MODULE Spec2Model ----
(***************************************************************************)
(* NFT verifier (NFT_Verifier/app.py, nft_verifier.py, aptos_api.py):      *)
(* one HTTP request at a time, from the route handler through the gateway  *)
(* calls to the HTTP outcome, and the scoring functions on their own.      *)
(*                                                                         *)
(* Text is a sequence of one-character strings, so that substring tests,   *)
(* lower-casing, str() and string comparison are computed, not assumed.    *)
(* A Python scalar is a record [t, s, n]: t the type tag, s the text of a  *)
(* str, n the number of an int.  A dict is a function on its keys.         *)
(***************************************************************************)
EXTENDS Integers, Sequences, FiniteSets, TLC

VARIABLES pc, req, now, resources, collection_data, tx_history, calls,
          status, report, fn, arg, out

vars == <<pc, req, now, resources, collection_data, tx_history, calls,
          status, report, fn, arg, out>>

pureVars == <<fn, arg, out>>

(***************************************************************************)
(* Text                                                                    *)
(***************************************************************************)

\* The characters used, in code-point order (Python compares str by code point).
Chars ==
  <<" ", "-", "/", "0", "1", "2", "3", "4", "5", "6", "7", "8", "9", ":", "<", ">",
    "A", "B", "C", "D", "E", "F", "G", "H", "I", "J", "K", "L", "M",
    "N", "O", "P", "Q", "R", "S", "T", "U", "V", "W", "X", "Y", "Z", "_",
    "a", "b", "c", "d", "e", "f", "g", "h", "i", "j", "k", "l", "m",
    "n", "o", "p", "q", "r", "s", "t", "u", "v", "w", "x", "y", "z">>

CharSet == {Chars[i] : i \in 1..Len(Chars)}

OrdOf == [c \in CharSet |-> CHOOSE i \in 1..Len(Chars) : Chars[i] = c]

\* ord(c)
Ord(c) == OrdOf[c]

UpperChars ==
  <<"A", "B", "C", "D", "E", "F", "G", "H", "I", "J", "K", "L", "M",
    "N", "O", "P", "Q", "R", "S", "T", "U", "V", "W", "X", "Y", "Z">>

LowerChars ==
  <<"a", "b", "c", "d", "e", "f", "g", "h", "i", "j", "k", "l", "m",
    "n", "o", "p", "q", "r", "s", "t", "u", "v", "w", "x", "y", "z">>

LowerOf ==
  [c \in CharSet |->
     IF \E i \in 1..Len(UpperChars) : UpperChars[i] = c
     THEN LowerChars[CHOOSE i \in 1..Len(UpperChars) : UpperChars[i] = c]
     ELSE c]

LowerChar(c) == LowerOf[c]

\* str.lower()
Lower(s) == [i \in 1..Len(s) |-> LowerChar(s[i])]

\* needle in hay
Contains(hay, needle) ==
  \E i \in 0..(Len(hay) - Len(needle)) : SubSeq(hay, i + 1, i + Len(needle)) = needle

\* a < b on str
RECURSIVE StrLess(_, _)
StrLess(a, b) ==
  IF b = <<>> THEN FALSE
  ELSE IF a = <<>> THEN TRUE
  ELSE IF a[1] = b[1] THEN StrLess(Tail(a), Tail(b))
  ELSE Ord(a[1]) < Ord(b[1])

\* The index of the first occurrence of sep in s, 0 when there is none.
FindSep(s, sep) ==
  IF Contains(s, sep)
  THEN CHOOSE i \in 1..Len(s) :
         /\ i + Len(sep) - 1 <= Len(s)
         /\ SubSeq(s, i, i + Len(sep) - 1) = sep
         /\ \A j \in 1..(i - 1) : SubSeq(s, j, j + Len(sep) - 1) # sep
  ELSE 0

\* str.split(sep)
RECURSIVE Split(_, _)
Split(s, sep) ==
  IF FindSep(s, sep) = 0 THEN <<s>>
  ELSE <<SubSeq(s, 1, FindSep(s, sep) - 1)>>
         \o Split(SubSeq(s, FindSep(s, sep) + Len(sep), Len(s)), sep)

DigitChars == <<"0", "1", "2", "3", "4", "5", "6", "7", "8", "9">>

IsDigit(c) == \E i \in 1..10 : DigitChars[i] = c

DigitVal(c) == (CHOOSE i \in 1..10 : DigitChars[i] = c) - 1

\* The decimal text of a natural number.
RECURSIVE Digits(_)
Digits(n) == IF n < 10 THEN <<DigitChars[n + 1]>> ELSE Digits(n \div 10) \o <<DigitChars[(n % 10) + 1]>>

(***************************************************************************)
(* Python values                                                           *)
(***************************************************************************)

PyNone == [t |-> "none", s |-> <<>>, n |-> 0]

PyStr(s) == [t |-> "str", s |-> s, n |-> 0]

PyInt(n) == [t |-> "int", s |-> <<>>, n |-> n]

PyTrue == [t |-> "bool", s |-> <<>>, n |-> 1]

\* bool(v)
Truthy(v) ==
  CASE v.t = "none" -> FALSE
    [] v.t = "str" -> v.s # <<>>
    [] OTHER -> v.n # 0

S_None == <<"N", "o", "n", "e">>

S_True == <<"T", "r", "u", "e">>

S_False == <<"F", "a", "l", "s", "e">>

\* str(v)
Str(v) ==
  CASE v.t = "none" -> S_None
    [] v.t = "str" -> v.s
    [] v.t = "bool" -> (IF v.n = 1 THEN S_True ELSE S_False)
    [] OTHER -> (IF v.n < 0 THEN <<"-">> \o Digits(0 - v.n) ELSE Digits(v.n))

EmptyDict == [k \in {} |-> PyNone]

\* d.get(k, default)
Get(d, k, default) == IF k \in DOMAIN d THEN d[k] ELSE default

\* The result of a gateway call: Absent (None), or the JSON value.
Absent(empty) == [absent |-> TRUE, val |-> empty]

Present(v) == [absent |-> FALSE, val |-> v]

(***************************************************************************)
(* Words the code tests for and writes                                     *)
(***************************************************************************)

S_token == <<"t", "o", "k", "e", "n">>

S_coin == <<"c", "o", "i", "n">>

S_transfer == <<"t", "r", "a", "n", "s", "f", "e", "r">>

S_stake == <<"s", "t", "a", "k", "e">>

S_swap == <<"s", "w", "a", "p">>

S_list == <<"l", "i", "s", "t">>

S_deposit == <<"d", "e", "p", "o", "s", "i", "t">>

S_withdraw == <<"w", "i", "t", "h", "d", "r", "a", "w">>

S_property == <<"p", "r", "o", "p", "e", "r", "t", "y">>

S_UnnamedNFT == <<"U", "n", "n", "a", "m", "e", "d", " ", "N", "F", "T">>

S_UnnamedToken == <<"U", "n", "n", "a", "m", "e", "d", " ", "T", "o", "k", "e", "n">>

S_UnnamedItem == <<"U", "n", "n", "a", "m", "e", "d", " ", "I", "t", "e", "m">>

S_NA == <<"N", "/", "A">>

S_Unknown == <<"U", "n", "k", "n", "o", "w", "n">>

S_lt == <<"<">>

S_gt == <<">">>

S_colons == <<":", ":">>

(***************************************************************************)
(* Dates.  A timestamp is text; a well-formed one is a fixed-width,        *)
(* zero-padded day number (ISO-8601 writes its fields fixed-width, most    *)
(* significant first, in the same way).                                    *)
(***************************************************************************)

\* Whether datetime.fromisoformat(s) succeeds.
WellFormed(s) == Len(s) = 3 /\ \A i \in 1..3 : IsDigit(s[i])

\* datetime.fromisoformat(s), in days, for a well-formed s.
ParseDay(s) == 100 * DigitVal(s[1]) + 10 * DigitVal(s[2]) + DigitVal(s[3])

\* d.isoformat()
IsoFormat(d) ==
  IF d < 10 THEN <<"0", "0">> \o Digits(d)
  ELSE IF d < 100 THEN <<"0">> \o Digits(d)
  ELSE Digits(d)

(***************************************************************************)
(* Normalization (NFTVerifier.get_nft_data_by_owner, first half)           *)
(***************************************************************************)

\* formatted_nft of one resource whose type contains "token".
FormatNft(resource) ==
  LET raw_data == Get(resource, "data", EmptyDict)
      formatted_nft ==
        [name |-> Get(raw_data, "name", PyStr(S_UnnamedNFT)),
         id |-> Get(raw_data, "token_id", Get(raw_data, "id", PyStr(S_NA))),
         collection |-> Get(raw_data, "collection_name", Get(raw_data, "collection", PyStr(S_NA))),
         creator |-> Get(raw_data, "creator_address", Get(raw_data, "creator", PyStr(S_NA))),
         metadata |-> raw_data,
         resource_type |-> Get(resource, "type", PyNone)]
      with_uri ==
        IF "uri" \in DOMAIN raw_data
        THEN ("uri" :> raw_data["uri"]) @@ formatted_nft
        ELSE formatted_nft
  IN IF "description" \in DOMAIN raw_data
     THEN ("description" :> raw_data["description"]) @@ with_uri
     ELSE with_uri

\* Whether the first loop takes the resource: "token" in resource.get("type", "").
IsNftResource(resource) == Contains(Get(resource, "type", PyStr(<<>>)).s, S_token)

\* nfts: the first loop over resources.
RECURSIVE ParseNfts(_)
ParseNfts(rs) ==
  IF rs = <<>> THEN <<>>
  ELSE (IF IsNftResource(Head(rs)) THEN <<FormatNft(Head(rs))>> ELSE <<>>)
         \o ParseNfts(Tail(rs))

\* _extract_token_name
ExtractTokenName(resource_type) ==
  LET inside_brackets == Split(Split(resource_type, S_lt)[2], S_gt)[1]
      parts == Split(resource_type, S_colons)
  IN IF Contains(resource_type, S_lt) /\ Contains(resource_type, S_gt)
          /\ Contains(inside_brackets, S_colons)
     THEN Split(inside_brackets, S_colons)[Len(Split(inside_brackets, S_colons))]
     ELSE IF Len(parts) >= 3
     THEN Split(parts[3], S_lt)[1]
     ELSE parts[Len(parts)]

\* Whether the second loop takes the resource.
IsBalanceResource(resource) ==
  /\ \/ Contains(Lower(Get(resource, "type", PyStr(<<>>)).s), S_coin)
     \/ Contains(Lower(Get(resource, "type", PyStr(<<>>)).s), S_token)
  /\ \/ "value" \in DOMAIN Get(resource, "data", EmptyDict)
     \/ "amount" \in DOMAIN Get(resource, "data", EmptyDict)

TokenBalance(resource) ==
  LET raw_data == Get(resource, "data", EmptyDict)
  IN [name |-> PyStr(ExtractTokenName(Get(resource, "type", PyStr(<<>>)).s)),
      amount |-> Get(raw_data, "value", Get(raw_data, "amount", PyInt(0))),
      resource_type |-> Get(resource, "type", PyStr(<<>>))]

\* token_balances: the second loop over resources.
RECURSIVE ParseBalances(_)
ParseBalances(rs) ==
  IF rs = <<>> THEN <<>>
  ELSE (IF IsBalanceResource(Head(rs)) THEN <<TokenBalance(Head(rs))>> ELSE <<>>)
         \o ParseBalances(Tail(rs))

(***************************************************************************)
(* Account activities (NFTVerifier._parse_account_activities)              *)
(***************************************************************************)

TypeLower(d) == Lower(Get(d, "type", PyStr(<<>>)).s)

\* word in tx_type or any(word in e.get("type", "").lower() for e in events)
Mentions(tx, word) ==
  \/ Contains(TypeLower(tx), word)
  \/ \E i \in 1..Len(Get(tx, "events", <<>>)) : Contains(TypeLower(Get(tx, "events", <<>>)[i]), word)

\* The number of events of tx whose lower-cased type contains word.
EventCount(tx, word) ==
  Cardinality({i \in 1..Len(Get(tx, "events", <<>>)) :
                 Contains(TypeLower(Get(tx, "events", <<>>)[i]), word)})

RecentLimit == 5

NoActivities ==
  [nft_staking |-> FALSE,
   token_swaps |-> [swap_count |-> 0, listing_count |-> 0],
   nft_transfers |-> [deposit_count |-> 0, withdraw_count |-> 0],
   property_modifications |-> 0,
   recent_transactions |-> <<>>]

\* One pass of the loop body over tx.
ActivityStep(a, tx) ==
  [nft_staking |-> a.nft_staking \/ Mentions(tx, S_stake),
   token_swaps |->
     [swap_count |-> a.token_swaps.swap_count + (IF Mentions(tx, S_swap) THEN 1 ELSE 0),
      listing_count |-> a.token_swaps.listing_count + (IF Mentions(tx, S_list) THEN 1 ELSE 0)],
   nft_transfers |->
     [deposit_count |-> a.nft_transfers.deposit_count + EventCount(tx, S_deposit),
      withdraw_count |-> a.nft_transfers.withdraw_count + EventCount(tx, S_withdraw)],
   property_modifications |-> a.property_modifications + EventCount(tx, S_property),
   recent_transactions |->
     IF Len(a.recent_transactions) < RecentLimit
     THEN Append(a.recent_transactions,
                 [type |-> Get(tx, "type", PyStr(S_Unknown)),
                  timestamp |-> Get(tx, "timestamp", PyStr(<<>>)),
                  success |-> Get(tx, "success", PyTrue)])
     ELSE a.recent_transactions]

RECURSIVE ActivityLoop(_, _)
ActivityLoop(a, txs) ==
  IF txs = <<>> THEN a ELSE ActivityLoop(ActivityStep(a, Head(txs)), Tail(txs))

\* "for tx in tx_history" raises TypeError when tx_history is None.
ParseAccountActivitiesRaises(tx) == tx.absent

\* _parse_account_activities, when it does not raise.
ParseAccountActivities(tx) == ActivityLoop(NoActivities, tx.val)

(***************************************************************************)
(* Risk scoring (NFTVerifier._analyze_nft_risk, _verify_nfts,              *)
(* _verify_collection)                                                     *)
(***************************************************************************)

\* "if tx_history:": neither None nor the empty list.
HistoryTruthy(tx) == ~tx.absent /\ tx.val # <<>>

\* _verify_nft_metadata
VerifyNftMetadata(nft_data) ==
  IF ~(\A field \in {"name", "id"} : field \in DOMAIN nft_data) THEN FALSE
  ELSE IF "metadata" \in DOMAIN nft_data
          /\ ~(\E field \in {"uri", "description"} : field \in DOMAIN nft_data["metadata"])
  THEN FALSE
  ELSE TRUE

\* _is_nft_transfer without the lower(): the type is tested as written.
IsNftTransfer_CaseSensitive(tx, nft_data) == Contains(Get(tx, "type", PyStr(<<>>)).s, S_transfer)

\* _is_nft_transfer
IsNftTransfer(tx, nft_data) == Contains(Lower(Get(tx, "type", PyStr(<<>>)).s), S_transfer)

\* sum(1 for tx in tx_history if self._is_nft_transfer(tx, nft_data))
RECURSIVE TransferCount(_, _)
TransferCount(txs, nft_data) ==
  IF txs = <<>> THEN 0
  ELSE (IF IsNftTransfer(Head(txs), nft_data) THEN 1 ELSE 0) + TransferCount(Tail(txs), nft_data)

NftMetadataPenalty == 40

TransferAllowance == 3

TransferPenalty == 20

NftHighRisk == 70

\* The transfer term without its allowance: 20 for every transfer once there are
\* more than three.
AnalyzeNftRisk_NoAllowance(nft_data, tx) ==
  LET incomplete == ~VerifyNftMetadata(nft_data)
      transfer_count == IF HistoryTruthy(tx) THEN TransferCount(tx.val, nft_data) ELSE 0
      velocity == HistoryTruthy(tx) /\ transfer_count > TransferAllowance
      risk_score ==
        (IF incomplete THEN NftMetadataPenalty ELSE 0)
          + (IF velocity THEN TransferPenalty * transfer_count ELSE 0)
  IN [risk_score |-> risk_score,
      risk_factors |->
        (IF incomplete THEN <<"INCOMPLETE_METADATA">> ELSE <<>>)
          \o (IF velocity THEN <<"HIGH_TRANSFER_VELOCITY">> ELSE <<>>),
      is_high_risk |-> risk_score >= NftHighRisk]

\* _analyze_nft_risk
AnalyzeNftRisk(nft_data, tx) ==
  LET incomplete == ~VerifyNftMetadata(nft_data)
      transfer_count == IF HistoryTruthy(tx) THEN TransferCount(tx.val, nft_data) ELSE 0
      velocity == HistoryTruthy(tx) /\ transfer_count > TransferAllowance
      risk_score ==
        (IF incomplete THEN NftMetadataPenalty ELSE 0)
          + (IF velocity THEN TransferPenalty * (transfer_count - TransferAllowance) ELSE 0)
  IN [risk_score |-> risk_score,
      risk_factors |->
        (IF incomplete THEN <<"INCOMPLETE_METADATA">> ELSE <<>>)
          \o (IF velocity THEN <<"HIGH_TRANSFER_VELOCITY">> ELSE <<>>),
      is_high_risk |-> risk_score >= NftHighRisk]

\* The loop of _verify_nfts: acc is [risk_scores, questionable_nfts].
RECURSIVE VerifyNftsLoop(_, _, _)
VerifyNftsLoop(acc, nfts, tx) ==
  IF nfts = <<>> THEN acc
  ELSE LET risk_result == AnalyzeNftRisk(Head(nfts), tx)
       IN VerifyNftsLoop(
            [risk_scores |-> Append(acc.risk_scores, risk_result.risk_score),
             questionable_nfts |->
               IF risk_result.is_high_risk
               THEN Append(acc.questionable_nfts,
                           [nft_data |-> Head(nfts), risk_assessment |-> risk_result])
               ELSE acc.questionable_nfts],
            Tail(nfts), tx)

RECURSIVE Sum(_)
Sum(xs) == IF xs = <<>> THEN 0 ELSE Head(xs) + Sum(Tail(xs))

\* sum(risk_scores) / len(risk_scores) if risk_scores else 0, as a fraction.
Average(risk_scores) ==
  IF risk_scores # <<>>
  THEN [num |-> Sum(risk_scores), den |-> Len(risk_scores)]
  ELSE [num |-> 0, den |-> 1]

\* _verify_nfts with the verdict taken from the average instead of the questionable list.
VerifyNfts_AverageVerdict(nfts, tx, today) ==
  LET acc == VerifyNftsLoop([risk_scores |-> <<>>, questionable_nfts |-> <<>>], nfts, tx)
  IN [average_risk_score |-> Average(acc.risk_scores),
      questionable_nfts |-> acc.questionable_nfts,
      is_verified |-> Sum(acc.risk_scores) < NftHighRisk * Len(acc.risk_scores) \/ nfts = <<>>,
      verification_timestamp |-> IsoFormat(today)]

\* _verify_nfts
VerifyNfts(nfts, tx, today) ==
  LET acc == VerifyNftsLoop([risk_scores |-> <<>>, questionable_nfts |-> <<>>], nfts, tx)
  IN [average_risk_score |-> Average(acc.risk_scores),
      questionable_nfts |-> acc.questionable_nfts,
      is_verified |-> acc.questionable_nfts = <<>>,
      verification_timestamp |-> IsoFormat(today)]

\* The key of min(): x.get("timestamp", datetime.now().isoformat())
TimestampKey(x, today) == Get(x, "timestamp", PyStr(IsoFormat(today))).s

\* The first transaction listed taken for the oldest (the history assumed sorted).
OldestTx_First(txs, today) == txs[1]

\* min(tx_history, key=...): the first transaction whose key no other is below.
OldestTx(txs, today) ==
  txs[CHOOSE i \in 1..Len(txs) :
        /\ \A j \in 1..Len(txs) : ~StrLess(TimestampKey(txs[j], today), TimestampKey(txs[i], today))
        /\ \A j \in 1..(i - 1) : StrLess(TimestampKey(txs[i], today), TimestampKey(txs[j], today))]

\* Every timestamp of the history parsed, not only the oldest one's.
VerifyCollectionRaises_AnyMalformed(coll, tx, today) ==
  /\ HistoryTruthy(tx)
  /\ \E i \in 1..Len(tx.val) :
       \/ "timestamp" \notin DOMAIN tx.val[i]
       \/ ~WellFormed(tx.val[i]["timestamp"].s)

\* datetime.fromisoformat(oldest_tx.get("timestamp")) raises: TypeError on None (no
\* timestamp key), ValueError on malformed text.
VerifyCollectionRaises(coll, tx, today) ==
  /\ HistoryTruthy(tx)
  /\ \/ "timestamp" \notin DOMAIN OldestTx(tx.val, today)
     \/ ~WellFormed(OldestTx(tx.val, today)["timestamp"].s)

NewAccountDays == 30

NewAccountPenalty == 25

ZeroSupplyPenalty == 50

LowSupply == 5

LowSupplyPenalty == 15

CollMetadataPenalty == 30

CollHighRisk == 60

\* _verify_collection, when it does not raise.
VerifyCollection(coll, tx, today) ==
  LET new_account ==
        /\ HistoryTruthy(tx)
        /\ today - ParseDay(OldestTx(tx.val, today)["timestamp"].s) < NewAccountDays
      supply == Get(coll, "supply", PyInt(0))
      zero == supply.n = 0
      low == ~zero /\ supply.n < LowSupply
      incomplete ==
        \/ ~Truthy(Get(coll, "description", PyNone))
        \/ ~Truthy(Get(coll, "uri", PyNone))
      risk_score ==
        (IF new_account THEN NewAccountPenalty ELSE 0)
          + (IF zero THEN ZeroSupplyPenalty ELSE IF low THEN LowSupplyPenalty ELSE 0)
          + (IF incomplete THEN CollMetadataPenalty ELSE 0)
  IN [risk_score |-> risk_score,
      risk_factors |->
        (IF new_account THEN <<"NEW_CREATOR_ACCOUNT">> ELSE <<>>)
          \o (IF zero THEN <<"ZERO_SUPPLY">> ELSE IF low THEN <<"VERY_LOW_SUPPLY">> ELSE <<>>)
          \o (IF incomplete THEN <<"INCOMPLETE_METADATA">> ELSE <<>>),
      is_high_risk |-> risk_score >= CollHighRisk,
      is_verified |-> ~(risk_score >= CollHighRisk),
      verification_timestamp |-> IsoFormat(today)]

(***************************************************************************)
(* The orchestrator (NFTVerifier.get_nft_data_by_owner,                    *)
(* get_nft_data_by_collection)                                             *)
(***************************************************************************)

A_bad == <<"0", "x", "b", "a", "d">>

A_ok == <<"0", "x", "1">>

\* self.known_scammers = get_known_scammers(): a fixed set of addresses.
KnownScammers == {A_bad}

\* The early return taken for an empty list only (resources == []), not for None.
ResourcesFalsy_EmptyListOnly(res) == ~res.absent /\ res.val = <<>>

\* "if not resources": None or the empty list.
ResourcesFalsy(res) == res.absent \/ res.val = <<>>

\* The early return of get_nft_data_by_owner.
OwnerEmptyResult == [nfts |-> <<>>, is_verified |-> FALSE, reason |-> "No resources found"]

\* account_info of get_nft_data_by_owner, when nothing raises.
OwnerResult(owner_address, res, tx, today) ==
  [owner_address |-> owner_address,
   nfts |-> ParseNfts(res.val),
   token_balances |-> ParseBalances(res.val),
   account_activities |-> ParseAccountActivities(tx),
   is_scammer |-> owner_address \in KnownScammers,
   verification_results |-> VerifyNfts(ParseNfts(res.val), tx, today)]

\* get_nft_data_by_owner raises after both fetches.
OwnerRaises(tx) == ParseAccountActivitiesRaises(tx)

\* "if not collection_data": None (a found collection is a non-empty dict).
CollectionFalsy(coll) == coll.absent \/ DOMAIN coll.val = {}

\* The early return of get_nft_data_by_collection.
\* A value that may be None is a sequence: <<>> for None, <<v>> for v.
CollectionNotFound == [collection_data |-> <<>>, is_verified |-> FALSE, reason |-> "Collection not found"]

FormatItem(item) ==
  [name |-> Get(item, "name", PyStr(S_UnnamedItem)),
   id |-> Get(item, "token_id", Get(item, "id", PyStr(S_NA))),
   owner |-> Get(item, "owner", PyStr(S_NA)),
   metadata |-> item]

\* collection_data after its "items" are reshaped.
FormatItems(coll) ==
  IF "items" \in DOMAIN coll
  THEN [coll EXCEPT !["items"] = [i \in 1..Len(coll["items"]) |-> FormatItem(coll["items"][i])]]
  ELSE coll

\* [token for token in tokens if str(token.get("id")) == token_id]
FilterTokens(tokens, token_id) ==
  SelectSeq(tokens, LAMBDA token : Str(Get(token, "id", PyNone)) = token_id.s)

FormatToken(token_data, creator_address, collection_name) ==
  [name |-> Get(token_data, "name", PyStr(S_UnnamedToken)),
   id |-> Get(token_data, "token_id", Get(token_data, "id", PyStr(S_NA))),
   owner |-> Get(token_data, "owner", PyStr(S_NA)),
   creator |-> PyStr(creator_address),
   collection |-> PyStr(collection_name),
   metadata |-> token_data]

\* The token_id branch taking the last match instead of the first.
TokenPart_LastMatch(coll, creator_address, collection_name, token_id, tx) ==
  LET filtered_tokens == FilterTokens(Get(coll, "tokens", <<>>), token_id)
      formatted_token ==
        FormatToken(filtered_tokens[Len(filtered_tokens)], creator_address, collection_name)
      token_risk == AnalyzeNftRisk(formatted_token, tx)
  IN IF filtered_tokens # <<>>
     THEN [token_data |-> <<formatted_token>>,
           token_verification |->
             [risk_assessment |-> token_risk,
              is_verified |-> ~token_risk.is_high_risk]]
     ELSE [token_data |-> <<>>,
           token_verification |->
             [is_verified |-> FALSE,
              reason |-> "Token ID not found in collection"]]

\* The token_id branch of get_nft_data_by_collection: the two keys it adds.
TokenPart(coll, creator_address, collection_name, token_id, tx) ==
  LET filtered_tokens == FilterTokens(Get(coll, "tokens", <<>>), token_id)
      formatted_token == FormatToken(filtered_tokens[1], creator_address, collection_name)
      token_risk == AnalyzeNftRisk(formatted_token, tx)
  IN IF filtered_tokens # <<>>
     THEN [token_data |-> <<formatted_token>>,
           token_verification |->
             [risk_assessment |-> token_risk,
              is_verified |-> ~token_risk.is_high_risk]]
     ELSE [token_data |-> <<>>,
           token_verification |->
             [is_verified |-> FALSE,
              reason |-> "Token ID not found in collection"]]

\* verification_result of get_nft_data_by_collection, when nothing raises.
CollectionResult(creator_address, collection_name, token_id, coll, tx, today) ==
  LET base ==
        [creator_address |-> creator_address,
         collection_name |-> collection_name,
         collection_data |-> <<FormatItems(coll.val)>>,
         is_scammer |-> creator_address \in KnownScammers,
         verification_results |-> VerifyCollection(FormatItems(coll.val), tx, today)]
  IN IF Truthy(token_id)
     THEN TokenPart(FormatItems(coll.val), creator_address, collection_name, token_id, tx) @@ base
     ELSE base

\* get_nft_data_by_collection raises after both fetches.
CollectionRaises(coll, tx, today) == VerifyCollectionRaises(FormatItems(coll.val), tx, today)

(***************************************************************************)
(* The gateway (AptosAPI)                                                  *)
(***************************************************************************)

\* get_collection_data, given the upstream answer: Absent when the request failed,
\* else the first of the creator's collections with the name, Absent when none has it.
GetCollectionData(upstream, collection_name) ==
  LET hits == SelectSeq(upstream.val, LAMBDA c : Get(c, "name", PyNone) = PyStr(collection_name))
  IN IF upstream.absent \/ hits = <<>> THEN Absent(EmptyDict) ELSE Present(hits[1])

(***************************************************************************)
(* The route handlers (app.py)                                             *)
(***************************************************************************)

NoReport == [detail |-> ""]

Error(code, detail) == [status |-> code, report |-> [detail |-> detail]]

Ok(result) == [status |-> 200, report |-> result]

InternalError == Error(500, "Internal Server Error")

\* verify_by_owner, from the result of get_nft_data_by_owner.
OwnerRouteOutcome(result) ==
  IF result.nfts = <<>>
  THEN Error(404, "No NFTs found for this owner")
  ELSE Ok(result)

\* verify_by_collection, from the result of get_nft_data_by_collection.
CollectionRouteOutcome(result) ==
  IF result.collection_data = <<>> \/ DOMAIN result.collection_data[1] = {}
  THEN Error(404, "Collection not found")
  ELSE Ok(result)

\* The filter without str(): the id compared with token_id as it is.
FilterNfts_NoStr(nfts, token_id) ==
  SelectSeq(nfts, LAMBDA nft : Get(nft, "id", PyNone) = token_id)

\* [nft for nft in result["nfts"] if str(nft.get("id")) == token_id]
FilterNfts(nfts, token_id) ==
  SelectSeq(nfts, LAMBDA nft : Str(Get(nft, "id", PyNone)) = token_id.s)

\* verify_single_nft on the owner path, from the result of get_nft_data_by_owner.
NftRouteOwnerOutcome(result, token_id) ==
  IF Truthy(token_id) /\ result.nfts # <<>>
  THEN Ok([result EXCEPT !.nfts = FilterNfts(result.nfts, token_id)])
  ELSE Ok(result)

\* verify_single_nft on the collection path.
NftRouteCollectionOutcome(result) == Ok(result)

(***************************************************************************)
(* Upstream data the checks draw from                                      *)
(***************************************************************************)

MaxRes == 2

MaxTx == 2

MaxColl == 2

N_apes == <<"A", "p", "e", "s">>

N_cats == <<"C", "a", "t", "s">>

RT_token == <<"0", "x", "3", ":", ":", "t", "o", "k", "e", "n", ":", ":", "T", "o", "k", "e", "n", "S", "t", "o", "r", "e">>

RT_coin == <<"0", "x", "1", ":", ":", "c", "o", "i", "n", ":", ":", "C", "o", "i", "n", "S", "t", "o", "r", "e", "<", "0", "x", "1", ":", ":", "a", "p", "t", "o", "s", "_", "c", "o", "i", "n", ":", ":", "A", "p", "t", "o", "s", "C", "o", "i", "n", ">">>

\* A token resource with every field.
R_full ==
  [type |-> PyStr(RT_token),
   data |-> [name |-> PyStr(<<"A", "p", "e">>), token_id |-> PyStr(<<"7">>),
             collection_name |-> PyStr(N_apes), creator_address |-> PyStr(A_ok),
             uri |-> PyStr(<<"u">>), description |-> PyStr(<<"d">>)]]

\* A token resource with the older field names, an integer id, no name.
R_int ==
  [type |-> PyStr(RT_token),
   data |-> [id |-> PyInt(7), collection |-> PyStr(N_apes), creator |-> PyStr(A_bad)]]

\* A token resource whose name and token_id are JSON null.
R_null ==
  [type |-> PyStr(RT_token),
   data |-> [name |-> PyNone, token_id |-> PyNone, id |-> PyInt(9), uri |-> PyStr(<<"u">>)]]

\* A token resource with no data.
R_bare == [type |-> PyStr(S_token)]

\* A coin balance.
R_coin == [type |-> PyStr(RT_coin), data |-> [value |-> PyInt(5)]]

ResourceSamples == {R_full, R_int, R_null, R_bare, R_coin}

\* All sequences over S of length at most n.
RECURSIVE SeqsUpTo(_, _)
SeqsUpTo(S, n) ==
  IF n = 0 THEN {<<>>}
  ELSE SeqsUpTo(S, n - 1) \cup {Append(q, x) : q \in {r \in SeqsUpTo(S, n - 1) : Len(r) = n - 1}, x \in S}

\* What the node answers to GET /accounts/{address}/resources.
ResourceAnswers == {Absent(<<>>)} \cup {Present(q) : q \in SeqsUpTo(ResourceSamples, MaxRes)}

TX_transfer ==
  [type |-> PyStr(<<"t", "r", "a", "n", "s", "f", "e", "r">>), timestamp |-> PyStr(<<"0", "4", "0">>), success |-> PyTrue,
   events |-> <<[type |-> PyStr(<<"D", "e", "p", "o", "s", "i", "t", "E", "v", "e", "n", "t">>)], [type |-> PyStr(<<"w", "i", "t", "h", "d", "r", "a", "w">>)]>>]

TX_recent ==
  [type |-> PyStr(<<"s", "t", "a", "k", "e">>), timestamp |-> PyStr(<<"0", "9", "0">>), success |-> PyTrue,
   events |-> <<[type |-> PyStr(<<"l", "i", "s", "t", "_", "p", "r", "o", "p", "e", "r", "t", "y">>)]>>]

\* A malformed timestamp, after "040" and before "090" as text.
TX_bad == [type |-> PyStr(<<"s", "w", "a", "p">>), timestamp |-> PyStr(<<"0", "4", "x">>), events |-> <<>>]

\* No timestamp, no events.
TX_bare == [type |-> PyStr(<<"N", "F", "T", "_", "T", "R", "A", "N", "S", "F", "E", "R">>)]

TxSamples == {TX_transfer, TX_recent, TX_bad, TX_bare}

\* What the node answers to GET /accounts/{address}/transactions.
TxAnswers == {Absent(<<>>)} \cup {Present(q) : q \in SeqsUpTo(TxSamples, MaxTx)}

\* Tokens of a collection: K_alias is found under id "7" and names itself "9".
K_alias == [id |-> PyStr(<<"7">>), token_id |-> PyStr(<<"9">>), name |-> PyStr(<<"A", "p", "e">>), uri |-> PyStr(<<"u">>)]

K_int == [id |-> PyInt(7), owner |-> PyStr(A_ok)]

K_nine == [id |-> PyStr(<<"9">>), description |-> PyStr(<<"d">>)]

C_apes ==
  [name |-> PyStr(N_apes), supply |-> PyInt(100), description |-> PyStr(<<"d">>),
   uri |-> PyStr(<<"u">>), tokens |-> <<K_nine, K_alias, K_int>>,
   items |-> <<[token_id |-> PyStr(<<"7">>)]>>]

C_zero == [name |-> PyStr(N_apes), supply |-> PyInt(0)]

C_cats == [name |-> PyStr(N_cats), supply |-> PyInt(3), description |-> PyStr(<<>>), uri |-> PyStr(<<"u">>)]

CollectionSamples == {C_apes, C_zero, C_cats}

\* What the node answers to GET /accounts/{creator}/resource/0x3::token::Collections:
\* a failure, or the creator's collections.
CollectionAnswers == {Absent(<<>>)} \cup {Present(q) : q \in SeqsUpTo(CollectionSamples, MaxColl)}

\* The clock, in days: what datetime.now() reads during a request.
Nows == {100}

Owners == {PyNone, PyStr(<<>>), PyStr(A_bad)}

Creators == {PyNone, PyStr(A_ok)}

Names == {PyNone, PyStr(N_apes)}

TokenIds == {PyNone, PyStr(<<>>), PyStr(<<"7">>)}

(***************************************************************************)
(* One request at a time: the handler runs from the route to the first     *)
(* gateway call, from each gateway answer to the next call, and from the   *)
(* last answer to the HTTP outcome.                                        *)
(***************************************************************************)

NoRequest == [route |-> "none", owner |-> PyNone, creator |-> PyNone, collection |-> PyNone, token_id |-> PyNone]

NoPure == [nft |-> EmptyDict, nfts |-> <<>>, coll |-> EmptyDict, tx |-> Absent(<<>>), today |-> 0]

Idle ==
  /\ pc = "idle"
  /\ req = NoRequest
  /\ now = 0
  /\ resources = Absent(<<>>)
  /\ collection_data = Absent(EmptyDict)
  /\ tx_history = Absent(<<>>)
  /\ calls = <<>>
  /\ status = 0
  /\ report = NoReport

Init ==
  /\ Idle
  /\ fn = "none"
  /\ arg = NoPure
  /\ out = NoReport

\* The handler has ended with this outcome.
Respond(outcome) ==
  /\ pc' = "done"
  /\ status' = outcome.status
  /\ report' = outcome.report

\* Whether the request is served by get_nft_data_by_owner.
OnOwnerPath(r) == r.route = "owner" \/ (r.route = "nft" /\ Truthy(r.owner))

\* GET /verify/owner/{owner_address}
VerifyByOwner(owner_address) ==
  /\ pc = "idle"
  /\ req' = [NoRequest EXCEPT !.route = "owner", !.owner = owner_address]
  /\ calls' = Append(calls, "get_account_resources")
  /\ pc' = "resources"
  /\ UNCHANGED <<now, resources, collection_data, tx_history, status, report>>
  /\ UNCHANGED pureVars

\* GET /verify/collection
VerifyByCollection(creator_address, collection_name, token_id) ==
  /\ pc = "idle"
  /\ req' = [route |-> "collection", owner |-> PyNone, creator |-> creator_address,
             collection |-> collection_name, token_id |-> token_id]
  /\ calls' = Append(calls, "get_collection_data")
  /\ pc' = "collection"
  /\ UNCHANGED <<now, resources, collection_data, tx_history, status, report>>
  /\ UNCHANGED pureVars

\* GET /verify/nft
VerifySingleNft(owner_address, creator_address, collection_name, token_id) ==
  /\ pc = "idle"
  /\ req' = [route |-> "nft", owner |-> owner_address, creator |-> creator_address,
             collection |-> collection_name, token_id |-> token_id]
  /\ IF Truthy(owner_address)
     THEN /\ calls' = Append(calls, "get_account_resources")
          /\ pc' = "resources"
          /\ UNCHANGED <<status, report>>
     ELSE IF Truthy(creator_address) /\ Truthy(collection_name)
     THEN /\ calls' = Append(calls, "get_collection_data")
          /\ pc' = "collection"
          /\ UNCHANGED <<status, report>>
     ELSE /\ Respond(Error(400, "Insufficient parameters"))
          /\ UNCHANGED calls
  /\ UNCHANGED <<now, resources, collection_data, tx_history>>
  /\ UNCHANGED pureVars

\* get_account_resources returns; get_nft_data_by_owner runs to its next call or return.
ReturnAccountResources(answer) ==
  /\ pc = "resources"
  /\ resources' = answer
  /\ IF ResourcesFalsy(answer)
     THEN /\ Respond(IF req.route = "owner"
                     THEN OwnerRouteOutcome(OwnerEmptyResult)
                     ELSE NftRouteOwnerOutcome(OwnerEmptyResult, req.token_id))
          /\ UNCHANGED calls
     ELSE /\ calls' = Append(calls, "get_account_transactions")
          /\ pc' = "transactions"
          /\ UNCHANGED <<status, report>>
  /\ UNCHANGED <<req, now, collection_data, tx_history>>
  /\ UNCHANGED pureVars

\* get_collection_data returns; get_nft_data_by_collection runs to its next call or return.
ReturnCollectionData(upstream) ==
  /\ pc = "collection"
  /\ collection_data' = GetCollectionData(upstream, req.collection.s)
  /\ IF CollectionFalsy(collection_data')
     THEN /\ Respond(IF req.route = "collection"
                     THEN CollectionRouteOutcome(CollectionNotFound)
                     ELSE NftRouteCollectionOutcome(CollectionNotFound))
          /\ UNCHANGED calls
     ELSE /\ calls' = Append(calls, "get_account_transactions")
          /\ pc' = "transactions"
          /\ UNCHANGED <<status, report>>
  /\ UNCHANGED <<req, now, resources, tx_history>>
  /\ UNCHANGED pureVars

\* The outcome of a request on the owner path once the transactions are in.
OwnerPathOutcome(r, res, tx, today) ==
  IF OwnerRaises(tx) THEN InternalError
  ELSE IF r.route = "owner" THEN OwnerRouteOutcome(OwnerResult(r.owner.s, res, tx, today))
  ELSE NftRouteOwnerOutcome(OwnerResult(r.owner.s, res, tx, today), r.token_id)

\* The collection path with /verify/nft handing its token_id on to
\* get_nft_data_by_collection, as /verify/collection does.
CollectionPathOutcome_PassTokenId(r, coll, tx, today) ==
  IF CollectionRaises(coll, tx, today) THEN InternalError
  ELSE IF r.route = "collection"
  THEN CollectionRouteOutcome(CollectionResult(r.creator.s, r.collection.s, r.token_id, coll, tx, today))
  ELSE NftRouteCollectionOutcome(CollectionResult(r.creator.s, r.collection.s, r.token_id, coll, tx, today))

\* The outcome of a request on the collection path once the transactions are in.
CollectionPathOutcome(r, coll, tx, today) ==
  IF CollectionRaises(coll, tx, today) THEN InternalError
  ELSE IF r.route = "collection"
  THEN CollectionRouteOutcome(CollectionResult(r.creator.s, r.collection.s, r.token_id, coll, tx, today))
  ELSE NftRouteCollectionOutcome(CollectionResult(r.creator.s, r.collection.s, PyNone, coll, tx, today))

\* get_account_transactions returns; the handler runs to its end.
ReturnAccountTransactions(answer, today) ==
  /\ pc = "transactions"
  /\ tx_history' = answer
  /\ now' = today
  /\ Respond(IF OnOwnerPath(req)
             THEN OwnerPathOutcome(req, resources, answer, today)
             ELSE CollectionPathOutcome(req, collection_data, answer, today))
  /\ UNCHANGED <<req, resources, collection_data, calls>>
  /\ UNCHANGED pureVars

\* The response is sent; the server waits for the next request.
NextRequest ==
  /\ pc = "done"
  /\ pc' = "idle"
  /\ req' = NoRequest
  /\ now' = 0
  /\ resources' = Absent(<<>>)
  /\ collection_data' = Absent(EmptyDict)
  /\ tx_history' = Absent(<<>>)
  /\ calls' = <<>>
  /\ status' = 0
  /\ report' = NoReport
  /\ UNCHANGED pureVars

Next ==
  \/ \E a \in {A_bad, A_ok} : VerifyByOwner(PyStr(a))
  \/ \E c \in {A_bad, A_ok}, t \in TokenIds : VerifyByCollection(PyStr(c), PyStr(N_apes), t)
  \/ \E o \in Owners, c \in Creators, n \in Names, t \in TokenIds : VerifySingleNft(o, c, n, t)
  \/ \E answer \in ResourceAnswers : ReturnAccountResources(answer)
  \/ \E upstream \in CollectionAnswers : ReturnCollectionData(upstream)
  \/ \E answer \in TxAnswers, today \in Nows : ReturnAccountTransactions(answer, today)
  \/ NextRequest

Spec == Init /\ [][Next]_vars

(***************************************************************************)
(* The scoring functions on their own: the arguments are drawn at the      *)
(* start, one step applies the function.                                   *)
(***************************************************************************)

MaxHist == 5

MaxNfts == 2

\* The example of the documentation: a name and an id, nothing else.
F_plain == [name |-> PyStr(<<"X">>), id |-> PyStr(<<"1">>)]

F_noname == [id |-> PyStr(<<"1">>), metadata |-> [uri |-> PyStr(<<"u">>)]]

F_noid == [name |-> PyStr(<<"X">>)]

F_desc == [name |-> PyStr(<<"X">>), id |-> PyInt(1), metadata |-> [description |-> PyStr(<<"d">>)]]

NftSamples == {F_plain, F_noname, F_noid, F_desc, FormatNft(R_full), FormatNft(R_bare)}

ListedNftSamples == {FormatNft(R_full), FormatNft(R_bare), F_noid}

\* Histories for the transfer count: "transfer", "NFT_TRANSFER" and "stake" types.
TransferAnswers ==
  {Absent(<<>>)} \cup {Present(q) : q \in SeqsUpTo({TX_transfer, TX_bare, TX_recent}, MaxHist)}

\* Collections for _verify_collection: supply, description and uri missing, falsy or set.
ScoredCollections ==
  {f @@ g @@ h :
     f \in {EmptyDict} \cup {[supply |-> PyInt(n)] : n \in {0, 4, 5}},
     g \in {EmptyDict} \cup {[description |-> v] : v \in {PyNone, PyStr(<<>>), PyStr(<<"d">>)}},
     h \in {EmptyDict} \cup {[uri |-> v] : v \in {PyNone, PyStr(<<>>), PyStr(<<"u">>)}}}

\* The clock for the account age: ages 10 and 30 for "090", 60 and 80 for "040".
AgeNows == {100, 120}

PureArgs ==
  [fn : {"analyze_nft_risk"}, nft : NftSamples, nfts : {<<>>}, coll : {EmptyDict},
   tx : TransferAnswers, today : {0}]
  \cup
  [fn : {"verify_nfts"}, nft : {EmptyDict}, nfts : SeqsUpTo(ListedNftSamples, MaxNfts),
   coll : {EmptyDict}, tx : TransferAnswers, today : {100}]
  \cup
  [fn : {"verify_collection"}, nft : {EmptyDict}, nfts : {<<>>}, coll : ScoredCollections,
   tx : TxAnswers, today : AgeNows]

InitPure ==
  /\ pc = "call"
  /\ req = NoRequest
  /\ now = 0
  /\ resources = Absent(<<>>)
  /\ collection_data = Absent(EmptyDict)
  /\ tx_history = Absent(<<>>)
  /\ calls = <<>>
  /\ status = 0
  /\ report = NoReport
  /\ \E a \in PureArgs :
       /\ fn = a.fn
       /\ arg = [nft |-> a.nft, nfts |-> a.nfts, coll |-> a.coll, tx |-> a.tx, today |-> a.today]
  /\ out = [raised |-> FALSE, val |-> NoReport]

Return(raised, val) ==
  /\ pc' = "return"
  /\ out' = [raised |-> raised, val |-> val]
  /\ UNCHANGED <<req, now, resources, collection_data, tx_history, calls, status, report, fn, arg>>

CallAnalyzeNftRisk ==
  /\ pc = "call" /\ fn = "analyze_nft_risk"
  /\ Return(FALSE, AnalyzeNftRisk(arg.nft, arg.tx))

CallVerifyNfts ==
  /\ pc = "call" /\ fn = "verify_nfts"
  /\ Return(FALSE, VerifyNfts(arg.nfts, arg.tx, arg.today))

CallVerifyCollection ==
  /\ pc = "call" /\ fn = "verify_collection"
  /\ IF VerifyCollectionRaises(arg.coll, arg.tx, arg.today)
     THEN Return(TRUE, NoReport)
     ELSE Return(FALSE, VerifyCollection(arg.coll, arg.tx, arg.today))

NextPure == CallAnalyzeNftRisk \/ CallVerifyNfts \/ CallVerifyCollection

SpecPure == InitPure /\ [][NextPure]_vars

(***************************************************************************)
(* Properties                                                              *)
(***************************************************************************)

\* The gateway operation was called during the request.
Called(op) == \E i \in 1..Len(calls) : calls[i] = op

\* A gateway call of the request returned Absent.
SomeAnswerAbsent ==
  \/ Called("get_account_resources") /\ resources.absent
  \/ Called("get_collection_data") /\ collection_data.absent
  \/ Called("get_account_transactions") /\ tx_history.absent

\* C1: an upstream failure never crashes a request: when a gateway call returned
\* Absent the request ends with a report, a 404 or a 400, never with a 500; and when
\* the owner's resources were fetched but the transactions are Absent, the owner report
\* is produced with the all-zero, empty activity summary.
C1_UpstreamFailureNeverCrashes ==
  (pc = "done" /\ SomeAnswerAbsent) =>
    /\ status \in {200, 400, 404}
    /\ (OnOwnerPath(req) /\ ~ResourcesFalsy(resources) /\ tx_history.absent /\ status = 200) =>
         report.account_activities = NoActivities

\* C2: for an address of the known-scammer registry, every report verify_owner returns
\* carries is_scammer = true, whatever the resources fetched (empty, Absent or without
\* NFT entries).  On /verify/nft the report of verify_owner is the response.
C2_ScammerAlwaysFlagged ==
  (pc = "done" /\ req.route = "nft" /\ Truthy(req.owner) /\ status = 200
     /\ req.owner.s \in KnownScammers) =>
    /\ "is_scammer" \in DOMAIN report
    /\ report["is_scammer"]

\* C3: every normalized NFT of an owner report has a non-null name and a non-null id:
\* "Unnamed NFT" for a missing name, "N/A" for a missing id, and never null, also when
\* the raw data map holds name, token_id or id with a null value.
C3_NameAndIdNeverNull ==
  (pc = "done" /\ OnOwnerPath(req) /\ status = 200) =>
    \A i \in 1..Len(report.nfts) :
      LET nft == report.nfts[i]
      IN /\ nft.name.t # "none"
         /\ nft.id.t # "none"
         /\ "name" \notin DOMAIN nft.metadata => nft.name = PyStr(S_UnnamedNFT)
         /\ ("token_id" \notin DOMAIN nft.metadata /\ "id" \notin DOMAIN nft.metadata) =>
              nft.id = PyStr(S_NA)

\* Whether tag is one of the risk factors.
HasFactor(factors, tag) == \E i \in 1..Len(factors) : factors[i] = tag

\* The NFT lacks name or id, or has a metadata map with neither uri nor description.
LacksMetadata(nft) ==
  \/ "name" \notin DOMAIN nft
  \/ "id" \notin DOMAIN nft
  \/ /\ "metadata" \in DOMAIN nft
     /\ "uri" \notin DOMAIN nft["metadata"]
     /\ "description" \notin DOMAIN nft["metadata"]

\* The number of transactions of the history whose type, as written, contains "transfer".
TransfersAsWritten(tx) ==
  IF tx.absent THEN 0
  ELSE Cardinality({i \in 1..Len(tx.val) : Contains(Get(tx.val[i], "type", PyStr(<<>>)).s, S_transfer)})

\* The number of transactions of the history whose lower-cased type contains "transfer".
TransfersAnyCase(tx) ==
  IF tx.absent THEN 0
  ELSE Cardinality({i \in 1..Len(tx.val) :
                      Contains(Lower(Get(tx.val[i], "type", PyStr(<<>>)).s), S_transfer)})

\* The assessment r of nft is the one the scoring rule gives for c transfers.
ScoredAs(r, nft, c) ==
  /\ r.risk_score = (IF LacksMetadata(nft) THEN 40 ELSE 0) + (IF c > 3 THEN 20 * (c - 3) ELSE 0)
  /\ HasFactor(r.risk_factors, "INCOMPLETE_METADATA") <=> LacksMetadata(nft)
  /\ HasFactor(r.risk_factors, "HIGH_TRANSFER_VELOCITY") <=> c > 3
  /\ r.is_high_risk <=> r.risk_score >= 70
  /\ r.risk_score >= 0

\* C4 as stated: the score of an NFT is 40 for lacking metadata plus 20*(c-3) for c > 3,
\* c the number of transactions whose type contains "transfer"; the tags match the
\* terms; high risk iff the score is at least 70; the score is never negative.
C4_ScoreNftAsWritten ==
  (pc = "return" /\ fn = "analyze_nft_risk") =>
    ScoredAs(out.val, arg.nft, TransfersAsWritten(arg.tx))

\* C4 amended: the same, with c the number of transactions whose type contains
\* "transfer" in any letter case; an NFT with name and id, no metadata key and no
\* history scores 0 with no factors.
C4_ScoreNft ==
  (pc = "return" /\ fn = "analyze_nft_risk") =>
    /\ ScoredAs(out.val, arg.nft, TransfersAnyCase(arg.tx))
    /\ (arg.nft = F_plain /\ ~HistoryTruthy(arg.tx)) =>
         out.val = [risk_score |-> 0, risk_factors |-> <<>>, is_high_risk |-> FALSE]

\* C4 witness: an NFT lacking metadata scored high-risk on five transfers, one of them
\* typed in upper case.
C4_Witness ==
  /\ pc = "return" /\ fn = "analyze_nft_risk"
  /\ LacksMetadata(arg.nft)
  /\ TransfersAnyCase(arg.tx) = 5
  /\ TransfersAsWritten(arg.tx) = 4
  /\ out.val.risk_score = 80
  /\ out.val.is_high_risk

\* Every transaction of the history has a well-formed timestamp.
AllWellFormed(tx) ==
  \A i \in 1..Len(tx.val) :
    "timestamp" \in DOMAIN tx.val[i] /\ WellFormed(tx.val[i]["timestamp"].s)

\* The age in whole days of the earliest transaction of a non-empty history.
EarliestAge(tx, today) ==
  LET days == {ParseDay(tx.val[i]["timestamp"].s) : i \in 1..Len(tx.val)}
  IN today - (CHOOSE d \in days : \A e \in days : d <= e)

C5_Witness ==
  /\ pc = "return" /\ fn = "verify_collection"
  /\ arg.tx = Present(<<TX_recent, TX_recent>>)
  /\ arg.today = 120
  /\ Get(arg.coll, "supply", PyInt(0)) = PyInt(4)
  /\ "description" \notin DOMAIN arg.coll
  /\ out.val.risk_score = 45
  /\ ~out.val.is_high_risk

RECURSIVE ScoreSum(_, _, _)
ScoreSum(nfts, tx, I) ==
  IF I = {} THEN 0
  ELSE LET i == CHOOSE j \in I : TRUE
       IN AnalyzeNftRisk(nfts[i], tx).risk_score + ScoreSum(nfts, tx, I \ {i})

\* The indices of the high-risk NFTs.
HighRiskAt(nfts, tx) == {i \in 1..Len(nfts) : AnalyzeNftRisk(nfts[i], tx).is_high_risk}

\* C6: the average is the arithmetic mean of the score_nft scores (0 for the empty
\* list); questionable_nfts is the sub-sequence of the high-risk NFTs, in input order,
\* each with its assessment; is_verified holds iff questionable_nfts is empty.
C6_Aggregate ==
  (pc = "return" /\ fn = "verify_nfts") =>
    LET r == out.val
        n == Len(arg.nfts)
        hi == HighRiskAt(arg.nfts, arg.tx)
        \* the k-th high-risk index, in increasing order
        at(k) == CHOOSE i \in hi : Cardinality({j \in hi : j < i}) = k - 1
    IN /\ IF n = 0
          THEN r.average_risk_score.num = 0
          ELSE r.average_risk_score.num * n
                 = r.average_risk_score.den * ScoreSum(arg.nfts, arg.tx, 1..n)
       /\ r.average_risk_score.den > 0
       /\ Len(r.questionable_nfts) = Cardinality(hi)
       /\ \A k \in 1..Len(r.questionable_nfts) :
            /\ r.questionable_nfts[k].nft_data = arg.nfts[at(k)]
            /\ r.questionable_nfts[k].risk_assessment = AnalyzeNftRisk(arg.nfts[at(k)], arg.tx)
       /\ r.is_verified <=> r.questionable_nfts = <<>>
       /\ n = 0 => (r.average_risk_score.num = 0 /\ r.is_verified)

\* C6 witness: two NFTs of which only the second is high-risk: the mean of 40 and 80
\* is 60, and the questionable list holds the second alone.
C6_Witness ==
  /\ pc = "return" /\ fn = "verify_nfts"
  /\ Len(arg.nfts) = 2
  /\ HighRiskAt(arg.nfts, arg.tx) = {2}
  /\ out.val.average_risk_score = [num |-> 120, den |-> 2]
  /\ Len(out.val.questionable_nfts) = 1
  /\ ~out.val.is_verified

\* The NFTs of the owner whose resources were fetched: none when the list is empty or Absent.
OwnersNfts == IF ResourcesFalsy(resources) THEN <<>> ELSE ParseNfts(resources.val)

\* The number a decimal numeral writes.
RECURSIVE NumeralValue(_)
NumeralValue(text) ==
  IF text = <<>> THEN 0
  ELSE 10 * NumeralValue(SubSeq(text, 1, Len(text) - 1)) + DigitVal(text[Len(text)])

\* text is what str() writes for the scalar v: the text itself for a string, "None" for
\* null, the decimal numeral without leading zeros for a natural number.
IsTextOf(text, v) ==
  IF v.t = "str" THEN text = v.s
  ELSE IF v.t = "none" THEN text = <<"N", "o", "n", "e">>
  ELSE /\ text # <<>>
       /\ \A i \in 1..Len(text) : IsDigit(text[i])
       /\ Len(text) > 1 => text[1] # "0"
       /\ NumeralValue(text) = v.n

\* q is p without the elements whose id text differs from text, in order.
RECURSIVE KeepsIdText(_, _, _)
KeepsIdText(q, p, text) ==
  IF p = <<>> THEN q = <<>>
  ELSE IF IsTextOf(text, Head(p).id)
  THEN q # <<>> /\ Head(q) = Head(p) /\ KeepsIdText(Tail(q), Tail(p), text)
  ELSE KeepsIdText(q, Tail(p), text)

\* C7: dispatch of /verify/nft (a parameter is given when it is present and not empty).
\* With an owner the owner path is taken, whatever creator and collection are, and with
\* a token_id the report lists exactly the owner's NFTs whose id text is token_id, in
\* order; without an owner but with creator and collection the collection path is
\* taken; otherwise the request ends with 400 and no gateway call.
C7_Dispatch ==
  req.route = "nft" =>
    IF Truthy(req.owner)
    THEN /\ calls[1] = "get_account_resources"
         /\ ~Called("get_collection_data")
         /\ (pc = "done" /\ status = 200 /\ Truthy(req.token_id)) =>
              KeepsIdText(report.nfts, OwnersNfts, req.token_id.s)
         /\ (pc = "done" /\ status = 200 /\ ~Truthy(req.token_id)) =>
              report.nfts = OwnersNfts
    ELSE IF Truthy(req.creator) /\ Truthy(req.collection)
    THEN /\ calls[1] = "get_collection_data"
         /\ ~Called("get_account_resources")
         /\ (pc = "done" /\ status = 200) => "collection_data" \in DOMAIN report
    ELSE pc = "done" /\ status = 400 /\ calls = <<>>

\* C7 witness: an owner with creator and collection also given and token_id "7": of
\* two NFTs, ids 7 (an integer) and null, the report keeps the first alone.
C7_Witness ==
  /\ pc = "done" /\ req.route = "nft" /\ status = 200
  /\ Truthy(req.owner) /\ Truthy(req.creator) /\ Truthy(req.collection)
  /\ req.token_id = PyStr(<<"7">>)
  /\ resources = Present(<<R_int, R_null>>)
  /\ Len(report.nfts) = 1
  /\ report.nfts[1].id = PyInt(7)

\* The orchestrator returned an empty or not-found result: an owner result with no NFTs,
\* or a collection result whose collection is Absent.
EmptyResult ==
  \/ /\ OnOwnerPath(req)
     /\ OwnersNfts = <<>>
     /\ ResourcesFalsy(resources) \/ ~OwnerRaises(tx_history)
  \/ /\ ~OnOwnerPath(req)
     /\ Called("get_collection_data")
     /\ collection_data.absent

\* C8: on every route, an empty or not-found result of the orchestrator ends as
\* HTTP 404, never as a 200 response carrying it.
C8_EmptyIs404 == (pc = "done" /\ EmptyResult) => status = 404

\* The creator's history is non-empty and holds a transaction with a malformed timestamp.
SomeMalformed ==
  /\ ~tx_history.absent
  /\ \E i \in 1..Len(tx_history.val) :
       /\ "timestamp" \in DOMAIN tx_history.val[i]
       /\ ~WellFormed(tx_history.val[i]["timestamp"].s)

\* The text a transaction is compared by: its timestamp, the current time for one without.
SortText(x) == IF "timestamp" \in DOMAIN x THEN x["timestamp"].s ELSE IsoFormat(now)

\* Transaction i is the one selected as earliest: no transaction sorts before it, and
\* those listed before it sort after it.
SelectedAsEarliest(i) ==
  /\ \A j \in 1..Len(tx_history.val) : ~StrLess(SortText(tx_history.val[j]), SortText(tx_history.val[i]))
  /\ \A j \in 1..(i - 1) : SortText(tx_history.val[j]) # SortText(tx_history.val[i])

\* A request on the collection path whose collection was found and whose transactions
\* were fetched has ended.
CollectionScored ==
  pc = "done" /\ ~OnOwnerPath(req) /\ Called("get_account_transactions")

C9_WitnessUnselected ==
  /\ CollectionScored
  /\ tx_history = Present(<<TX_bad, TX_transfer>>)
  /\ status = 200

\* The raw tokens list of the found collection: empty when the collection has none.
RawTokens == IF "tokens" \in DOMAIN collection_data.val THEN collection_data.val["tokens"] ELSE <<>>

\* The indices of the raw tokens whose id text is the requested token_id.
MatchingTokens == {i \in 1..Len(RawTokens) : IsTextOf(req.token_id.s, Get(RawTokens[i], "id", PyNone))}

\* The first raw token whose id text is the requested token_id.
FirstMatch == RawTokens[CHOOSE i \in MatchingTokens : \A j \in MatchingTokens : i <= j]

\* A request of /verify/collection whose collection was found has ended with a report.
CollectionReported == pc = "done" /\ req.route = "collection" /\ status = 200

\* The token part of the report but for the id of the token: the normalization of the
\* first match with its score_nft assessment, or the not-verified sub-result, or nothing
\* when no token_id is given.
TokenPartAttached ==
  IF ~Truthy(req.token_id)
  THEN "token_data" \notin DOMAIN report /\ "token_verification" \notin DOMAIN report
  ELSE IF MatchingTokens = {}
  THEN /\ report["token_data"] = <<>>
       /\ DOMAIN report["token_verification"] = {"is_verified", "reason"}
       /\ ~report["token_verification"]["is_verified"]
  ELSE LET token == report["token_data"][1]
           check == report["token_verification"]
       IN /\ Len(report["token_data"]) = 1
          /\ token.metadata = FirstMatch
          /\ token.name = Get(FirstMatch, "name", PyStr(S_UnnamedToken))
          /\ token.owner = Get(FirstMatch, "owner", PyStr(S_NA))
          /\ token.creator = req.creator /\ token.collection = req.collection
          /\ DOMAIN check = {"is_verified", "risk_assessment"}
          /\ check["risk_assessment"] = AnalyzeNftRisk(token, tx_history)
          /\ check["is_verified"] <=> ~check["risk_assessment"].is_high_risk

\* C10 as stated: with a token_id, the report carries the normalization of the first
\* entry of the raw tokens list whose id text equals token_id, whose id is therefore the
\* requested token_id, and the score_nft assessment of it with is_verified = not
\* is_high_risk; with no match token_data = null and token_verification is the
\* not-verified sub-result; without a token_id neither key is present.
C10_TokenIdIsRequested ==
  CollectionReported =>
    /\ TokenPartAttached
    /\ (Truthy(req.token_id) /\ MatchingTokens # {}) =>
         report["token_data"][1].id = req.token_id

\* C10 amended: the same, except that the id of the attached token is the entry's
\* token_id field when it has one, else its id field as it is, and need not be the
\* requested token_id.
C10_TokenLookup ==
  CollectionReported =>
    /\ TokenPartAttached
    /\ (Truthy(req.token_id) /\ MatchingTokens # {}) =>
         report["token_data"][1].id
           = (IF "token_id" \in DOMAIN FirstMatch THEN FirstMatch["token_id"] ELSE FirstMatch["id"])

\* C10 witness: token_id "7" on a collection with two entries of id text "7": the first
\* is attached, under the id "9" of its token_id field.
C10_Witness ==
  /\ CollectionReported
  /\ req.token_id = PyStr(<<"7">>)
  /\ Cardinality(MatchingTokens) = 2
  /\ report["token_data"] = <<FormatToken(K_alias, req.creator.s, req.collection.s)>>
  /\ report["token_data"][1].id = PyStr(<<"9">>)
  /\ report["token_verification"]["is_verified"]

\* The gateway operations, by the order of their calls in a request.
CallOrder ==
  IF OnOwnerPath(req)
  THEN <<"get_account_resources", "get_account_transactions">>
  ELSE <<"get_collection_data", "get_account_transactions">>

\* The request is one that reaches the gateway.
UsesGateway == req.route \in {"owner", "collection"} \/ pc \in {"resources", "collection", "transactions"} \/ calls # <<>>

\* The answer of the first gateway call of the request, once it has returned.
FirstAnswerAbsent ==
  IF OnOwnerPath(req) THEN resources.absent ELSE collection_data.absent

\* C11: the gateway calls of one request are issued one at a time, each operation at
\* most once, in a fixed order: the resources (owner path), respectively the collection
\* (collection path), first, and the transactions only after that call has returned;
\* the transactions are never fetched when the first call returned Absent, and the
\* request then ends at once with the empty report with is_verified = false,
\* respectively the not-found report (which /verify/owner and /verify/collection turn
\* into their 404, and /verify/nft returns as it is).
C11_CallOrdering ==
  UsesGateway =>
    /\ Len(calls) <= 2
    /\ \A i \in 1..Len(calls) : calls[i] = CallOrder[i]
    /\ pc \in {"resources", "collection"} => Len(calls) = 1
    /\ pc = "transactions" => Len(calls) = 2 /\ ~FirstAnswerAbsent
    /\ Called("get_account_transactions") => ~FirstAnswerAbsent
    /\ (pc = "done" /\ FirstAnswerAbsent) =>
         /\ Len(calls) = 1
         /\ tx_history = Absent(<<>>)
         /\ IF req.route = "nft"
            THEN /\ status = 200
                 /\ report \in {[nfts |-> <<>>, is_verified |-> FALSE, reason |-> "No resources found"],
                                [collection_data |-> <<>>, is_verified |-> FALSE, reason |-> "Collection not found"]}
                 /\ ("nfts" \in DOMAIN report) = OnOwnerPath(req)
            ELSE status = 404

\* A request whose first gateway call returned Absent has ended after that one call.
C11_Witness ==
  /\ pc = "done"
  /\ req.route = "nft"
  /\ ~OnOwnerPath(req)
  /\ collection_data.absent
  /\ calls = <<"get_collection_data">>
  /\ status = 200

\* A request that made both calls, in order, and ended with a report.
C11_WitnessBoth ==
  /\ pc = "done"
  /\ req.route = "owner"
  /\ calls = <<"get_account_resources", "get_account_transactions">>
  /\ ~tx_history.absent
  /\ status = 200

\* The token ids a request is compared under: absent, empty, and two different ids.
ComparedTokenIds == TokenIds \cup {PyStr(<<"9">>)}

\* What the request of this state would have been answered over the same upstream
\* data, had it come by the given route with the given token_id.
OutcomeWithTokenId(route, t) ==
  LET r == [req EXCEPT !.route = route, !.token_id = t]
  IN IF CollectionFalsy(collection_data)
     THEN IF route = "collection"
          THEN CollectionRouteOutcome(CollectionNotFound)
          ELSE NftRouteCollectionOutcome(CollectionNotFound)
     ELSE CollectionPathOutcome(r, collection_data, tx_history, now)

\* The request went down the creator+collection branch of /verify/nft and has ended.
NftByCollectionDone ==
  /\ pc = "done"
  /\ req.route = "nft"
  /\ ~Truthy(req.owner)
  /\ Truthy(req.creator)
  /\ Truthy(req.collection)

\* C12: on the creator+collection path of /verify/nft the token_id has no effect: over
\* the same upstream data the response is the same for every token_id (absent, empty or
\* any id), and it never contains token_data or token_verification, whereas
\* /verify/collection with the same creator, collection and token_id, on a found
\* collection, does contain them.
C12_TokenIdIgnored ==
  NftByCollectionDone =>
    /\ \A t \in ComparedTokenIds :
         OutcomeWithTokenId("nft", t) = [status |-> status, report |-> report]
    /\ "token_data" \notin DOMAIN report
    /\ "token_verification" \notin DOMAIN report
    /\ (status = 200 /\ Truthy(req.token_id) /\ ~CollectionFalsy(collection_data)) =>
         LET other == OutcomeWithTokenId("collection", req.token_id)
         IN /\ other.status = 200
            /\ "token_data" \in DOMAIN other.report
            /\ "token_verification" \in DOMAIN other.report

\* /verify/nft by creator and collection with token_id 7 has answered with the report
\* of a collection that holds a token of id 7.
C12_Witness ==
  /\ NftByCollectionDone
  /\ req.token_id = PyStr(<<"7">>)
  /\ status = 200
  /\ ~CollectionFalsy(collection_data)
  /\ MatchingTokens # {}
  /\ "verification_results" \in DOMAIN report

\* What is claimed of a call of score_nft or aggregate_nft_verification whose history
\* is counted as holding few (at most four) transfers.
NeverHighRiskOnFew(few) ==
  /\ (pc = "return" /\ fn = "analyze_nft_risk") =>
       /\ few => (~out.val.is_high_risk /\ out.val.risk_score <= 60)
       /\ out.val.is_high_risk => HasFactor(out.val.risk_factors, "HIGH_TRANSFER_VELOCITY")
  /\ (pc = "return" /\ fn = "verify_nfts" /\ few) =>
       (out.val.questionable_nfts = <<>> /\ out.val.is_verified)

\* C13 as stated: incomplete metadata alone never makes an NFT high-risk: when the
\* history is Absent, empty or holds at most 4 transactions whose type contains
\* "transfer", no NFT is scored high-risk (every score is at most 60), the aggregate has
\* no questionable NFTs and is verified; every high-risk assessment carries the
\* HIGH_TRANSFER_VELOCITY tag.
C13_MetadataAloneAsWritten == NeverHighRiskOnFew(TransfersAsWritten(arg.tx) <= 4)

\* C13 amended: the same, the transfers of the history being the transactions whose
\* type contains "transfer" in any letter case.
C13_MetadataAlone == NeverHighRiskOnFew(TransfersAnyCase(arg.tx) <= 4)

\* C13 witness: an NFT lacking metadata, scored on a history of four transfers, is at
\* 60 and not high-risk.
C13_Witness ==
  /\ pc = "return"
  /\ fn = "analyze_nft_risk"
  /\ LacksMetadata(arg.nft)
  /\ TransfersAnyCase(arg.tx) = 4
  /\ out.val.risk_score = 60
  /\ ~out.val.is_high_risk

\* A list with an NFT lacking metadata, aggregated on a history of four transfers, is
\* verified.
C13_WitnessAggregate ==
  /\ pc = "return"
  /\ fn = "verify_nfts"
  /\ \E i \in 1..Len(arg.nfts) : LacksMetadata(arg.nfts[i])
  /\ TransfersAnyCase(arg.tx) = 4
  /\ out.val.questionable_nfts = <<>>
  /\ out.val.is_verified

====
